---- MODULE Spec2Model ----
(***************************************************************************)
(* RAGme: the ingestion service (chunk_text, generate_document_id,         *)
(* ingest_document), the api service (query_knowledge_base over            *)
(* RAGPipeline.retrieve, generate_context and query), the shared           *)
(* VectorStorage adapter (create_collection, upsert, search) and the       *)
(* vector index they write to and read from.                               *)
(*                                                                         *)
(* Strings are sequences of one-character strings, so that slicing,        *)
(* joining and splitting are computed and not assumed.                     *)
(*                                                                         *)
(* ingest_document is an async handler that never awaits: the ingestion    *)
(* process runs one request at a time, from its first line to its          *)
(* response. What interleaves with a request are the other processes: the  *)
(* api service starting, a create_collection(recreate=True) call, a        *)
(* process ending. Each client call is one step of the index.              *)
(***************************************************************************)
EXTENDS Integers, Sequences, FiniteSets, TLC

VARIABLES
    config,         \* shared/config.py: the process-wide Config instance
    call,           \* the arguments chunk_text was called with
    chunk_size,     \* chunk_text local, rebound on line 56
    chunk_overlap,  \* chunk_text local, rebound on line 57
    chunks,         \* chunk_text local
    start,          \* chunk_text local
    ctpc,           \* position inside chunk_text: idle, entry, loop, return
    index,          \* the vector index: the collection and its points
    up,             \* which service processes have completed their startup
    hashseed,       \* the ingestion process's str-hash randomisation seed
    pc,             \* position of the ingestion process in ingest_document
    document,       \* ingest_document: the request body
    doc_id,         \* ingest_document local
    ingests,        \* every ingest call so far, with its outcome
    adminpc,        \* position of a create_collection(recreate=True) call
    dimension,      \* create_collection local of that call
    lastCreate,     \* how the latest create_collection call went
    events,         \* ingest, query, process stop and recreate calls so far
    stages,         \* how often the latest call invoked each external stage
    response,       \* api: the latest /query call and what it was answered
    documents,      \* generate_context: its argument
    context,        \* generate_context: what it returned
    gcpc            \* position of a direct generate_context call

ctvars == <<call, chunk_size, chunk_overlap, chunks, start, ctpc>>
svars == <<index, up, hashseed, pc, document, doc_id, ingests,
           adminpc, dimension, lastCreate, events>>
gcvars == <<documents, context, gcpc>>
qvars == <<stages, response, gcvars>>
vars == <<config, ctvars, svars, qvars>>

-----------------------------------------------------------------------------
(* Bounds *)

MaxLen == 4        \* longest text
MaxSize == 3       \* largest chunk_size / chunk_overlap argument
LoopCap == MaxLen + 2   \* iterations of the while loop that are followed
MaxEvents == 2     \* ingest, query, process stop and recreate calls together
HashBits == 5      \* width of the str hash (64 in CPython)
MaxResults == 2    \* longest result list handed to generate_context

-----------------------------------------------------------------------------
(* Python values *)

None == <<>>                 \* Optional[int]: None is <<>>, the int v is <<v>>
Some(v) == <<v>>

Min(a, b) == IF a <= b THEN a ELSE b
Max(a, b) == IF a >= b THEN a ELSE b

\* `x or default` on an Optional[int]: None and 0 are both falsy.
PyOr(x, default) == IF x = None \/ x[1] = 0 THEN default ELSE x[1]

\* s[i:j] with Python's rules: a negative index counts from the end, and
\* both indices are clamped into 0..len(s).
PyIndex(s, i) == IF i < 0 THEN Max(i + Len(s), 0) ELSE Min(i, Len(s))
PySlice(s, i, j) == SubSeq(s, PyIndex(s, i) + 1, PyIndex(s, j))

TextChars == {"a", "b"}
SeqsUpTo(S, n) == UNION {[1..k -> S] : k \in 0..n}
Texts == SeqsUpTo(TextChars, MaxLen)

\* CHUNK_SIZE / CHUNK_OVERLAP are read from the environment without any
\* validation: a valid pair with overlap, a pair without overlap, and a
\* pair with overlap >= size.
ConfigChoices ==
    { [chunk_size |-> 2, chunk_overlap |-> 1, embedding_dimension |-> 2],
      [chunk_size |-> 3, chunk_overlap |-> 0, embedding_dimension |-> 2],
      [chunk_size |-> 2, chunk_overlap |-> 2, embedding_dimension |-> 2] }

-----------------------------------------------------------------------------
(* chunk_text, services/ingestion/main.py lines 41-71 *)

\* line 63
ChunkEnd(s, size) == s + size

\* line 64
ChunkSlice(t, s, e) == PySlice(t, s, e)

\* line 66 with the overlap counted one character too many
NextStartShort(e, overlap) == e - overlap - 1

\* line 66 with the overlap forgotten
NextStartNoOverlap(e, overlap) == e

\* line 66
NextStart(e, overlap) == e - overlap

\* line 68
LoopBreaks(s, t) == s >= Len(t)

\* lines 56-60
ChunkEnter ==
    /\ ctpc = "entry"
    /\ chunk_size' = PyOr(call.chunk_size, config.chunk_size)
    /\ chunk_overlap' = PyOr(call.chunk_overlap, config.chunk_overlap)
    /\ chunks' = <<>>
    /\ start' = 0
    /\ ctpc' = "loop"
    /\ UNCHANGED <<call, config, svars, qvars>>

\* lines 62-69: one iteration of the while loop
ChunkIter ==
    /\ ctpc = "loop"
    /\ start < Len(call.text)
    /\ Len(chunks) < LoopCap
    /\ LET end == ChunkEnd(start, chunk_size)
           chunk == ChunkSlice(call.text, start, end)
       IN /\ chunks' = Append(chunks, chunk)
          /\ start' = NextStart(end, chunk_overlap)
          /\ ctpc' = IF LoopBreaks(start', call.text) THEN "return" ELSE "loop"
    /\ UNCHANGED <<call, chunk_size, chunk_overlap, config, svars, qvars>>

\* line 62 false, then line 71
ChunkExit ==
    /\ ctpc = "loop"
    /\ ~(start < Len(call.text))
    /\ ctpc' = "return"
    /\ UNCHANGED <<call, chunk_size, chunk_overlap, chunks, start, config, svars,
                   qvars>>

-----------------------------------------------------------------------------
(* Characters, digits and digests *)

HexDigits == <<"0", "1", "2", "3", "4", "5", "6", "7",
               "8", "9", "a", "b", "c", "d", "e", "f">>

RECURSIVE ToHex(_, _)
\* n as w lower-case hex digits, most significant first
ToHex(n, w) ==
    IF w = 0 THEN <<>> ELSE Append(ToHex(n \div 16, w - 1), HexDigits[(n % 16) + 1])

RECURSIVE Str(_)
\* str(i) of a non-negative int
Str(i) == IF i < 10 THEN <<HexDigits[i + 1]>>
          ELSE Append(Str(i \div 10), HexDigits[(i % 10) + 1])

\* every character of a document id or chunk id
IdChars == HexDigits \o <<"_", "h", "u", "n", "k", "o">>
CharCode(c) == CHOOSE i \in 1..Len(IdChars) : IdChars[i] = c

RECURSIVE ContentCode(_)
\* the bytes of content.encode(), folded into one number
ContentCode(t) ==
    IF t = <<>> THEN 0
    ELSE (ContentCode(SubSeq(t, 1, Len(t) - 1)) * 3 + CharCode(t[Len(t)])) % 4096

\* hashlib.md5(b).hexdigest(): 32 hex digits, a fixed function of the bytes.
\* The digest itself is not computed: a stand-in with the same shape.
Md5Hex(t) ==
    ToHex((ContentCode(t) * 7 + 5) % 65536, 8) \o ToHex(ContentCode(t), 24)

\* hashlib.sha256(b).hexdigest(): 64 hex digits, another fixed function of
\* the bytes (md5 and sha256 disagree on the first 8 digits of '' already:
\* d41d8cd9 and e3b0c442).
Sha256Hex(t) ==
    ToHex((ContentCode(t) * 11 + 3) % 65536, 8) \o ToHex(ContentCode(t), 56)

\* uuid.uuid4().hex: 32 random hex digits. Three of the outcomes: two that
\* agree on their first 8 digits, and one that does not.
Uuid4Outcomes == { [hi |-> 1, lo |-> 1], [hi |-> 1, lo |-> 2], [hi |-> 2, lo |-> 1] }
UuidHex(u) == ToHex(u.hi, 8) \o ToHex(u.lo, 24)

\* the [:8] of lines 83 and 84
PrefixLen == 8

-----------------------------------------------------------------------------
(* generate_document_id, services/ingestion/main.py lines 74-84 *)

\* line 83
ContentHash(content) == PySlice(Md5Hex(content), 0, PrefixLen)

\* line 84, u being the outcome of uuid.uuid4()
GenerateDocumentId(content, u) ==
    <<"d", "o", "c", "_">> \o ContentHash(content) \o <<"_">>
        \o PySlice(UuidHex(u), 0, PrefixLen)

-----------------------------------------------------------------------------
(* Dicts: functions from key strings to values *)

EmptyDict == <<>>

\* {**a, **b}: the later entry wins
DictMerge(a, b) ==
    [k \in (DOMAIN a) \cup (DOMAIN b) |-> IF k \in DOMAIN b THEN b[k] ELSE a[k]]

\* `m or {}` on an Optional[dict]
PyOrDict(m) == IF m = None THEN EmptyDict ELSE m[1]

-----------------------------------------------------------------------------
(* The vector index (Qdrant), as the client calls of storage.py use it *)

NoCollection == [exists |-> FALSE, size |-> 0, distance |-> "", points |-> <<>>]

\* client.delete_collection: an unreachable index raises and changes nothing
ClientDeleteCollection(idx, reachable) ==
    IF reachable THEN [index |-> NoCollection, raised |-> FALSE]
    ELSE [index |-> idx, raised |-> TRUE]

\* client.create_collection(collection_name, VectorParams(size, COSINE)):
\* raises when the index is unreachable and when the collection exists
ClientCreateCollection(idx, size, reachable) ==
    IF reachable /\ ~idx.exists
    THEN [index |-> [exists |-> TRUE, size |-> size, distance |-> "Cosine",
                     points |-> <<>>],
          raised |-> FALSE]
    ELSE [index |-> idx, raised |-> TRUE]

RECURSIVE PutPoints(_, _)
\* the points of a batch written in order: a point id already there is replaced
PutPoints(stored, points) ==
    IF points = <<>> THEN stored
    ELSE LET pt == points[Len(points)]
             before == PutPoints(stored, SubSeq(points, 1, Len(points) - 1))
         IN [i \in (DOMAIN before) \cup {pt.id} |->
                IF i = pt.id THEN [vector |-> pt.vector, payload |-> pt.payload]
                ELSE before[i]]

\* client.upsert(collection_name, points): raises, writing nothing, when the
\* index is unreachable, the collection is missing or a vector has the wrong
\* dimension
ClientUpsert(idx, points, reachable) ==
    IF /\ reachable
       /\ idx.exists
       /\ \A i \in 1..Len(points) : Len(points[i].vector) = idx.size
    THEN [index |-> [idx EXCEPT !.points = PutPoints(idx.points, points)],
          raised |-> FALSE]
    ELSE [index |-> idx, raised |-> TRUE]

-----------------------------------------------------------------------------
(* VectorStorage, shared/storage.py *)

RECURSIVE StrHashFold(_, _, _)
StrHashFold(seed, s, h) ==
    IF s = <<>> THEN h
    ELSE StrHashFold(seed, Tail(s), (h * 5 + CharCode(Head(s)) + seed) % (2 ^ HashBits))

\* hash(s) of a str: a signed integer of HashBits bits that depends on the
\* process's hash seed (PYTHONHASHSEED, random unless set)
StrHash(seed, s) ==
    LET h == StrHashFold(seed, s, seed)
    IN IF h >= 2 ^ (HashBits - 1) THEN h - 2 ^ HashBits ELSE h

\* line 87: hash(point_id) % (2**63), 63 being the hash width less one
PointId(seed, chunk_id) == StrHash(seed, chunk_id) % (2 ^ (HashBits - 1))

\* zip(embeddings, payloads) of line 82: as long as the shorter one
ZipLen(embeddings, payloads) == Min(Len(embeddings), Len(payloads))

\* lines 80-87: the points of an upsert call. Line 81 numbers them 0, 1, ...
\* and line 87 overwrites the id of each one that has an entry in ids.
UpsertPoints(seed, ids, embeddings, payloads) ==
    [i \in 1..ZipLen(embeddings, payloads) |->
        [id |-> IF i <= Len(ids) THEN PointId(seed, ids[i]) ELSE i - 1,
         vector |-> embeddings[i],
         payload |-> payloads[i]]]

\* lines 48-65 with the delete of lines 50-54 done whatever recreate says
CreateCollectionAlwaysDeletes(idx, dim, reachable) ==
    [index |-> ClientCreateCollection(
                   ClientDeleteCollection(idx, reachable).index,
                   PyOr(dim, config.embedding_dimension), reachable).index,
     raised |-> FALSE]

\* lines 48-65 after the optional delete: the create call, every exception
\* of which is swallowed
CreateCollection(idx, dim, reachable) ==
    [index |-> ClientCreateCollection(
                   idx, PyOr(dim, config.embedding_dimension), reachable).index,
     raised |-> FALSE]

\* lines 50-54: the delete of recreate=True, every exception swallowed
DeleteForRecreate(idx, reachable) == ClientDeleteCollection(idx, reachable).index

-----------------------------------------------------------------------------
(* embedding_model.encode, shared/embeddings.py lines 30-40 *)

RECURSIVE CountOf(_, _)
CountOf(c, t) ==
    IF t = <<>> THEN 0 ELSE (IF Head(t) = c THEN 1 ELSE 0) + CountOf(c, Tail(t))

\* the vector of one text: a fixed function of the text, of the model's
\* dimension (2 here)
Embed(t) == <<Len(t), CountOf("a", t)>>

Encode(texts) == [i \in 1..Len(texts) |-> Embed(texts[i])]

-----------------------------------------------------------------------------
(* ingest_document, services/ingestion/main.py lines 99-141 *)

\* lines 121-126, i counted from 0
BuildPayload(id, i, chunk, metadata) ==
    DictMerge([document_id |-> id, chunk_index |-> i, text |-> chunk],
              PyOrDict(metadata))

\* line 131
ChunkId(id, i) == id \o <<"_", "c", "h", "u", "n", "k", "_">> \o Str(i)

Contents == { <<>>, <<"a", "b", "b">> }

\* no metadata, metadata with a key of its own, and metadata that names the
\* three keys of the payload as well
MetadataChoices ==
    { None,
      Some([source |-> <<"s">>]),
      Some([source |-> <<"s">>, text |-> <<"z">>, chunk_index |-> 9,
            document_id |-> <<"x">>]) }

\* the locals of a handler that is not running
NoRequest ==
    /\ call' = [text |-> <<>>, chunk_size |-> None, chunk_overlap |-> None]
    /\ chunk_size' = 0
    /\ chunk_overlap' = 0
    /\ chunks' = <<>>
    /\ start' = 0
    /\ ctpc' = "idle"
    /\ document' = [content |-> <<>>, metadata |-> None]
    /\ doc_id' = <<>>
    /\ pc' = "idle"

SetLast(log, status, n) ==
    [log EXCEPT ![Len(log)].status = status, ![Len(log)].chunks_created = n]

\* lines 109-114, up to the call of chunk_text
IngestBegin(content, metadata, u) ==
    /\ up["ingestion"]
    /\ pc = "idle"
    /\ events < MaxEvents
    /\ events' = events + 1
    /\ document' = [content |-> content, metadata |-> metadata]
    /\ doc_id' = GenerateDocumentId(content, u)
    /\ call' = [text |-> content, chunk_size |-> None, chunk_overlap |-> None]
    /\ ctpc' = "entry"
    /\ pc' = "chunking"
    /\ ingests' = Append(ingests, [content |-> content, document_id |-> doc_id',
                                   status |-> "pending", chunks_created |-> 0])
    /\ UNCHANGED <<qvars, config, chunk_size, chunk_overlap, chunks, start, index, up,
                   hashseed, adminpc, dimension, lastCreate>>

\* lines 120-128
Payloads ==
    [i \in 1..Len(chunks) |->
        BuildPayload(doc_id, i - 1, chunks[i], document.metadata)]

\* line 131
ChunkIds == [i \in 1..Len(chunks) |-> ChunkId(doc_id, i - 1)]

\* line 134: the points vector_storage.upsert hands to client.upsert
UpsertBatch == UpsertPoints(hashseed, ChunkIds, Encode(chunks), Payloads)

\* one call's invocations of the embedding model, of client.upsert and of
\* client.search
NoStages == [encode |-> 0, upsert |-> 0, search |-> 0]

UpsertIssuedAlways(encode_ok) == TRUE

\* line 117 raising leaves the try block: lines 120-138 run only when
\* embedding_model.encode returned
UpsertIssued(encode_ok) == encode_ok

\* lines 116-141, from the return of chunk_text on: the embedding call,
\* the upsert and the response (an exception of either call becomes the
\* HTTP 500 of line 141)
IngestFinish(encode_ok, reachable) ==
    /\ pc = "chunking"
    /\ ctpc = "return"
    /\ IF ~UpsertIssued(encode_ok)
       THEN /\ ingests' = SetLast(ingests, "error", 0)
            /\ stages' = [NoStages EXCEPT !.encode = 1]
            /\ UNCHANGED index
       ELSE LET done == ClientUpsert(index, UpsertBatch, reachable)
            IN /\ index' = done.index
               /\ stages' = [NoStages EXCEPT !.encode = 1, !.upsert = 1]
               /\ ingests' = IF done.raised THEN SetLast(ingests, "error", 0)
                             ELSE SetLast(ingests, "success", Len(chunks))
    /\ NoRequest
    /\ UNCHANGED <<config, up, hashseed, adminpc, dimension, lastCreate, events,
                   response, gcvars>>

-----------------------------------------------------------------------------
(* Service processes and create_collection calls *)

Procs == {"ingestion", "api"}

\* what a create_collection call finds in the index
Found(idx) ==
    IF ~idx.exists THEN "missing"
    ELSE IF DOMAIN idx.points = {} THEN "empty" ELSE "points"
HashSeeds == {1, 2}

\* startup_event (ingestion, lines 87-90) and lifespan (api, lines 19-25):
\* vector_storage.create_collection(), then the service takes requests
Startup(p, seed, reachable) ==
    /\ ~up[p]
    /\ LET made == CreateCollection(index, None, reachable)
       IN /\ index' = made.index
          /\ lastCreate' = [recreate |-> FALSE, found |-> Found(index),
                            raised |-> made.raised]
          /\ up' = [up EXCEPT ![p] = ~made.raised]
    /\ hashseed' = IF p = "ingestion" THEN seed ELSE hashseed
    /\ UNCHANGED <<qvars, config, ctvars, pc, document, doc_id, ingests, adminpc,
                   dimension, events>>

\* a service process ends; what it was doing is lost
Stop(p) ==
    /\ up[p]
    /\ events < MaxEvents
    /\ events' = events + 1
    /\ up' = [up EXCEPT ![p] = FALSE]
    /\ IF p = "ingestion"
       THEN NoRequest
       ELSE UNCHANGED <<ctvars, pc, document, doc_id>>
    /\ UNCHANGED <<qvars, config, index, hashseed, ingests, adminpc, dimension,
                   lastCreate>>

OptDims == {None, Some(3)}

\* create_collection(dimension=dim, recreate=True), lines 48-54
AdminRecreateDelete(dim, reachable) ==
    /\ adminpc = "idle"
    /\ events < MaxEvents
    /\ events' = events + 1
    /\ dimension' = dim
    /\ index' = DeleteForRecreate(index, reachable)
    /\ adminpc' = "create"
    /\ UNCHANGED <<qvars, config, ctvars, up, hashseed, pc, document, doc_id, ingests,
                   lastCreate>>

\* create_collection(dimension=dim, recreate=True), lines 56-65
AdminRecreateCreate(reachable) ==
    /\ adminpc = "create"
    /\ LET made == CreateCollection(index, dimension, reachable)
       IN /\ index' = made.index
          /\ lastCreate' = [recreate |-> TRUE, found |-> Found(index),
                            raised |-> made.raised]
    /\ adminpc' = "idle"
    /\ UNCHANGED <<qvars, config, ctvars, up, hashseed, pc, document, doc_id, ingests,
                   dimension, events>>

-----------------------------------------------------------------------------
(* RAGPipeline.generate_context, services/api/rag_pipeline.py lines 45-62 *)

\* d.get(key, default)
DictGet(d, key, default) == IF key \in DOMAIN d THEN d[key] ELSE default

Abs(k) == IF k < 0 THEN -k ELSE k

\* A score is a float; the ones followed here are the sixteenths k/16, which
\* a float holds exactly. k/16 is 625*k ten-thousandths, and the rounding of
\* format(x, ".3f") is to the nearest thousandth, a tie to the even one.
Thousandths(k) ==
    LET n == Abs(k) * 625
        q == n \div 10
        r == n % 10
    IN IF r > 5 \/ (r = 5 /\ q % 2 = 1) THEN q + 1 ELSE q

\* f"{score:.3f}" of the score k/16
Format3f(k) ==
    LET t == Thousandths(k)
        f == t % 1000
    IN (IF k < 0 THEN <<"-">> ELSE <<>>) \o Str(t \div 1000) \o <<".">>
           \o Str(f \div 100) \o Str((f \div 10) % 10) \o Str(f % 10)

RECURSIVE JoinTrailing(_, _)
\* a join that ends every part with the separator
JoinTrailing(sep, parts) ==
    IF parts = <<>> THEN <<>>
    ELSE Head(parts) \o sep \o JoinTrailing(sep, Tail(parts))

RECURSIVE Join(_, _)
\* sep.join(parts)
Join(sep, parts) ==
    IF parts = <<>> THEN <<>>
    ELSE IF Len(parts) = 1 THEN parts[1]
    ELSE Head(parts) \o sep \o Join(sep, Tail(parts))

\* lines 57-60, i being the 1-based rank of enumerate(documents, 1)
ContextPart(i, doc) ==
    LET payload == DictGet(doc, "payload", EmptyDict)
        text == DictGet(payload, "text", <<>>)
        score == DictGet(doc, "score", 0)
    IN <<"[">> \o Str(i) \o <<"]", " ", "(", "S", "c", "o", "r", "e", ":", " ">>
           \o Format3f(score) \o <<")", "\n">> \o text

\* lines 54-62
GenerateContext(docs) ==
    Join(<<"\n", "\n">>, [i \in 1..Len(docs) |-> ContextPart(i, docs[i])])

\* a direct call of generate_context
GenerateContextCall ==
    /\ gcpc = "call"
    /\ context' = GenerateContext(documents)
    /\ gcpc' = "return"
    /\ UNCHANGED <<config, ctvars, svars, stages, response, documents>>

-----------------------------------------------------------------------------
(* VectorStorage.search, shared/storage.py lines 91-110, and the index *)

RECURSIVE Dot(_, _)
Dot(a, b) == IF a = <<>> THEN 0 ELSE Head(a) * Head(b) + Dot(Tail(a), Tail(b))

\* the cosine similarity of two vectors without negative entries, in
\* sixteenths, rounded down; 0 when one of them is the zero vector
Cosine16(a, b) ==
    LET d == Dot(a, b)
        n == Dot(a, a) * Dot(b, b)
    IN IF n = 0 THEN 0
       ELSE CHOOSE k \in 0..16 :
                k * k * n <= 256 * d * d /\ (k + 1) * (k + 1) * n > 256 * d * d

RECURSIVE InOrder(_)
\* a set of point ids as a sequence, the smallest first
InOrder(ids) ==
    IF ids = {} THEN <<>>
    ELSE LET least == CHOOSE p \in ids : \A o \in ids : p <= o
         IN <<least>> \o InOrder(ids \ {least})

RECURSIVE InsertHit(_, _)
\* hit put into a sequence of hits that has the highest score first, behind
\* every hit of its score or a higher one
InsertHit(hit, sorted) ==
    IF sorted = <<>> THEN <<hit>>
    ELSE IF Head(sorted).score >= hit.score
         THEN <<Head(sorted)>> \o InsertHit(hit, Tail(sorted))
         ELSE <<hit>> \o sorted

RECURSIVE SortHits(_)
SortHits(hits) ==
    IF hits = <<>> THEN <<>>
    ELSE InsertHit(hits[Len(hits)], SortHits(SubSeq(hits, 1, Len(hits) - 1)))

\* every point as a hit, the most similar first; equal scores are put in
\* the order of their point ids
Ranked(points, vector) ==
    LET ids == InOrder(DOMAIN points)
    IN SortHits([i \in 1..Len(ids) |->
                    [payload |-> points[ids[i]].payload,
                     score |-> Cosine16(vector, points[ids[i]].vector)]])

\* client.search(collection_name, query_vector, limit): the limit most
\* similar points. It raises when the index is unreachable, the collection
\* is missing, the vector has the wrong dimension or limit is below 1.
ClientSearch(idx, vector, limit, reachable) ==
    IF reachable /\ idx.exists /\ Len(vector) = idx.size /\ limit >= 1
    THEN LET all == Ranked(idx.points, vector)
         IN [hits |-> SubSeq(all, 1, Min(limit, Len(all))), raised |-> FALSE]
    ELSE [hits |-> <<>>, raised |-> TRUE]

\* lines 103-110
StorageSearch(idx, query_embedding, limit, reachable) ==
    LET results == ClientSearch(idx, query_embedding, limit, reachable)
    IN [documents |-> [i \in 1..Len(results.hits) |->
                          [payload |-> results.hits[i].payload,
                           score |-> results.hits[i].score]],
        raised |-> results.raised]

-----------------------------------------------------------------------------
(* RAGPipeline.retrieve and query, services/api/rag_pipeline.py *)

\* line 17: the top_k of the global pipeline instance of line 89
TopK == 5

\* line 35
RetrieveLimit(limit) == PyOr(limit, TopK)

\* lines 35-43: encode_single raising ends the call before line 41
Retrieve(idx, query, limit, encode_ok, reachable) ==
    IF ~encode_ok
    THEN [documents |-> <<>>, raised |-> TRUE, searched |-> FALSE,
          limit |-> RetrieveLimit(limit)]
    ELSE LET results == StorageSearch(idx, Embed(query), RetrieveLimit(limit),
                                      reachable)
         IN [documents |-> results.documents, raised |-> results.raised,
             searched |-> TRUE, limit |-> RetrieveLimit(limit)]

-----------------------------------------------------------------------------
(* The api service, services/api/main.py *)

\* line 49
DefaultLimit == 5

\* lines 45-49: the QueryRequest of a JSON body; limit may be left out, or
\* be null
QueryRequest(body) ==
    [query |-> body.query,
     limit |-> IF "limit" \in DOMAIN body THEN body.limit ELSE Some(DefaultLimit)]

\* lines 94-106: one DocumentResult
DocumentResult(doc) ==
    LET payload == DictGet(doc, "payload", EmptyDict)
    IN [text |-> DictGet(payload, "text", <<>>),
        score |-> DictGet(doc, "score", 0),
        document_id |-> IF "document_id" \in DOMAIN payload
                        THEN Some(payload.document_id) ELSE None,
        chunk_index |-> IF "chunk_index" \in DOMAIN payload
                        THEN Some(payload.chunk_index) ELSE None,
        metadata |-> [k \in (DOMAIN payload) \ {"text", "document_id", "chunk_index"}
                         |-> payload[k]]]

NoResponse ==
    [status |-> "none", query |-> <<>>, results |-> <<>>, context |-> <<>>,
     num_results |-> 0, request |-> [query |-> <<>>, limit |-> None],
     supplied |-> FALSE, searched |-> FALSE, limit |-> 0, hits |-> 0]

\* a context that begins with a heading
GenerateContextHeaded(docs) ==
    <<"C", "o", "n", "t", "e", "x", "t", ":", "\n">> \o GenerateContext(docs)

\* rag_pipeline.py line 80
QueryContext(docs) == GenerateContext(docs)

Queries == { <<"a">> }

\* the limit of a request body: left out, null, or an int
BodyLimits == { None, Some(-1), Some(0), Some(1) }
Bodies ==
    { [query |-> q] : q \in Queries }
        \cup { [query |-> q, limit |-> l] : q \in Queries, l \in BodyLimits }

\* POST /query, lines 77-117, with rag_pipeline.query (rag_pipeline.py lines
\* 64-85) inside: the whole handler, which never awaits. GET /search (lines
\* 120-132) builds a QueryRequest with an int limit and runs the same lines.
\* supplied, searched, limit and hits record what the caller sent and what
\* went to and came from the index. A query call changes nothing but its own
\* response, so a run is followed up to its first query call: the call uses
\* up what is left of MaxEvents.
QueryKnowledgeBase(body, encode_ok, reachable) ==
    /\ up["api"]
    /\ events < MaxEvents
    /\ events' = MaxEvents
    /\ LET request == QueryRequest(body)
       IN \E got \in {Retrieve(index, request.query, request.limit, encode_ok,
                               reachable)} :
          /\ stages' = [NoStages EXCEPT !.encode = 1,
                                        !.search = IF got.searched THEN 1 ELSE 0]
          /\ response' =
                IF got.raised
                THEN [NoResponse EXCEPT !.status = "error",
                                        !.request = request,
                                        !.supplied = "limit" \in DOMAIN body,
                                        !.searched = got.searched,
                                        !.limit = got.limit]
                ELSE [status |-> "ok",
                      query |-> request.query,
                      results |-> [i \in 1..Len(got.documents) |->
                                      DocumentResult(got.documents[i])],
                      context |-> QueryContext(got.documents),
                      num_results |-> Len(got.documents),
                      request |-> request,
                      supplied |-> "limit" \in DOMAIN body,
                      searched |-> got.searched,
                      limit |-> got.limit,
                      hits |-> Len(got.documents)]
    /\ UNCHANGED <<config, ctvars, index, up, hashseed, pc, document, doc_id,
                   ingests, adminpc, dimension, lastCreate, gcvars>>

-----------------------------------------------------------------------------
(* The services *)

\* before any process has started: nothing in the index, nothing in flight
ServiceInit ==
    /\ index = NoCollection
    /\ up = [p \in Procs |-> FALSE]
    /\ hashseed = 0
    /\ pc = "idle"
    /\ document = [content |-> <<>>, metadata |-> None]
    /\ doc_id = <<>>
    /\ ingests = <<>>
    /\ adminpc = "idle"
    /\ dimension = None
    /\ lastCreate = [recreate |-> FALSE, found |-> "", raised |-> FALSE]
    /\ events = 0
    /\ stages = NoStages

\* no generate_context call under way
NoContextCall ==
    /\ documents = <<>>
    /\ context = <<>>
    /\ gcpc = "idle"

Init ==
    /\ config \in ConfigChoices
    /\ call = [text |-> <<>>, chunk_size |-> None, chunk_overlap |-> None]
    /\ chunk_size = 0
    /\ chunk_overlap = 0
    /\ chunks = <<>>
    /\ start = 0
    /\ ctpc = "idle"
    /\ ServiceInit
    /\ response = NoResponse
    /\ NoContextCall

Next ==
    \/ \E p \in Procs, seed \in HashSeeds, r \in BOOLEAN : Startup(p, seed, r)
    \/ \E p \in Procs : Stop(p)
    \/ \E c \in Contents, m \in MetadataChoices, u \in Uuid4Outcomes : IngestBegin(c, m, u)
    \/ ChunkEnter
    \/ ChunkIter
    \/ ChunkExit
    \/ \E e \in BOOLEAN, r \in BOOLEAN : IngestFinish(e, r)
    \/ \E d \in OptDims, r \in BOOLEAN : AdminRecreateDelete(d, r)
    \/ \E r \in BOOLEAN : AdminRecreateCreate(r)
    \/ \E b \in Bodies, e \in BOOLEAN, r \in BOOLEAN : QueryKnowledgeBase(b, e, r)

Spec == Init /\ [][Next]_vars

-----------------------------------------------------------------------------
(* chunk_text called directly, on every input within the bounds *)

OptInts == {None} \cup {Some(v) : v \in 0..MaxSize}

InitChunk ==
    /\ config \in ConfigChoices
    /\ call \in [text : Texts, chunk_size : OptInts, chunk_overlap : OptInts]
    /\ chunk_size = 0
    /\ chunk_overlap = 0
    /\ chunks = <<>>
    /\ start = 0
    /\ ctpc = "entry"
    /\ ServiceInit
    /\ response = NoResponse
    /\ NoContextCall

NextChunk == ChunkEnter \/ ChunkIter \/ ChunkExit

SpecChunk == InitChunk /\ [][NextChunk]_vars

-----------------------------------------------------------------------------
(* generate_context called directly, on every result list within the bounds *)

\* texts of results: empty, one line, and one with a blank line inside
ResultTexts == { <<>>, <<"a">>, <<"a", "\n", "\n", "b">> }

\* scores, in sixteenths: -1/16, 3/16 (0.1875, a rounding tie) and 1
ResultScores == { -1, 3, 16 }

\* results as storage.search builds them, and three that lack the text, the
\* payload or the score, which the .get calls of lines 58-59 allow for
DocChoices ==
    { [payload |-> [text |-> t], score |-> k] : t \in ResultTexts, k \in ResultScores }
        \cup { [payload |-> [document_id |-> <<"x">>], score |-> 3],
               [score |-> 16],
               [payload |-> [text |-> <<"b">>]] }

DocLists == UNION { [1..n -> DocChoices] : n \in 0..MaxResults }

InitContext ==
    /\ config \in ConfigChoices
    /\ call = [text |-> <<>>, chunk_size |-> None, chunk_overlap |-> None]
    /\ chunk_size = 0
    /\ chunk_overlap = 0
    /\ chunks = <<>>
    /\ start = 0
    /\ ctpc = "idle"
    /\ ServiceInit
    /\ response = NoResponse
    /\ documents \in DocLists
    /\ context = <<>>
    /\ gcpc = "call"

NextContext == GenerateContextCall

SpecContext == InitContext /\ [][NextContext]_vars

-----------------------------------------------------------------------------
(* Properties of chunk_text, checked under SpecChunk *)

ArgSize == call.chunk_size[1]
ArgOverlap == call.chunk_overlap[1]

\* chunk_size > 0 and 0 <= chunk_overlap < chunk_size, both passed as ints
ValidArgs ==
    /\ call.chunk_size # None
    /\ call.chunk_overlap # None
    /\ ArgSize > 0
    /\ 0 <= ArgOverlap
    /\ ArgOverlap < ArgSize

\* the overlap the loop runs with when chunk_overlap is passed as an int
UsedOverlap == IF ArgOverlap = 0 THEN config.chunk_overlap ELSE ArgOverlap

LastN(s, n) == SubSeq(s, Max(Len(s) - n, 0) + 1, Len(s))
FirstN(s, n) == SubSeq(s, 1, Min(n, Len(s)))

C1_Covered ==
    /\ ValidArgs
    /\ Len(call.text) > 0
    /\ Len(call.text) <= ArgSize - UsedOverlap

C2_OverlapEveryPair ==
    (ctpc = "return" /\ ValidArgs) =>
        \A i \in 1..(Len(chunks) - 1) :
            LastN(chunks[i], ArgOverlap) = FirstN(chunks[i + 1], ArgOverlap)

\* C2 amended: with valid arguments, every pair of consecutive chunks whose
\* earlier chunk has the full length chunk_size shares chunk_overlap
\* characters, the short tail chunk included.
C2_OverlapAfterFullChunk ==
    (ctpc = "return" /\ ValidArgs) =>
        \A i \in 1..(Len(chunks) - 1) :
            Len(chunks[i]) = ArgSize =>
                LastN(chunks[i], ArgOverlap) = FirstN(chunks[i + 1], ArgOverlap)

C2_Witness ==
    /\ ctpc = "return"
    /\ ValidArgs
    /\ ArgOverlap >= 1
    /\ \E i \in 1..(Len(chunks) - 1) :
          /\ Len(chunks[i]) = ArgSize
          /\ Len(chunks[i + 1]) < ArgSize
          /\ LastN(chunks[i], ArgOverlap) = <<"a", "b">>
          /\ FirstN(chunks[i + 1], ArgOverlap) = <<"a", "b">>

\* C3 as stated: chunk_text terminates on every input, the combinations with
\* chunk_overlap >= chunk_size included: every iteration of its loop moves
\* start forward (an iteration that does not is repeated for ever, since the
\* step chunk_size - chunk_overlap never changes).
C3_EveryIterationAdvances == [][ChunkIter => start' > start]_vars

\* C4 as stated: with valid arguments (chunk_overlap = 0 included) chunk_text
\* returns text[k*step : k*step + chunk_size] for k = 0..n-1, where
\* step = chunk_size - chunk_overlap and n is the least natural number with
\* n*step >= len(text).
C4_Step == ArgSize - ArgOverlap
C4_Count ==
    CHOOSE n \in 0..Len(call.text) :
        /\ n * C4_Step >= Len(call.text)
        /\ \A m \in 0..(n - 1) : m * C4_Step < Len(call.text)
C4_ChunksAtMultiplesOfStep ==
    (ctpc = "return" /\ ValidArgs) =>
        chunks = [k \in 1..C4_Count |->
                    PySlice(call.text, (k - 1) * C4_Step,
                            (k - 1) * C4_Step + ArgSize)]

-----------------------------------------------------------------------------
(* Properties of the ingestion service and the index, checked under Spec *)

\* C5 as stated: every payload handed to the index upsert carries the
\* generated document id, the chunk's position and the chunk's text, whatever
\* the caller's metadata holds.
C5_ReservedKeysWin ==
    (pc = "chunking" /\ ctpc = "return") =>
        \A i \in 1..Len(UpsertBatch) :
            /\ UpsertBatch[i].payload.document_id = doc_id
            /\ UpsertBatch[i].payload.chunk_index = i - 1
            /\ UpsertBatch[i].payload.text = chunks[i]

\* C6 as stated: no two ingest calls are given the same document_id, calls
\* with identical content included.
C6_DocumentIdsDiffer ==
    \A i, j \in 1..Len(ingests) :
        i # j => ingests[i].document_id # ingests[j].document_id

RECURSIVE Split(_, _)
\* s.split(sep)
Split(s, sep) ==
    IF \A i \in 1..Len(s) : s[i] # sep THEN <<s>>
    ELSE LET i == CHOOSE k \in 1..Len(s) :
                      s[k] = sep /\ \A m \in 1..(k - 1) : s[m] # sep
         IN <<SubSeq(s, 1, i - 1)>> \o Split(SubSeq(s, i + 1, Len(s)), sep)

IsHex(s) == \A i \in 1..Len(s) : \E d \in 1..Len(HexDigits) : s[i] = HexDigits[d]

\* C7 as stated: every document_id has exactly three '_'-separated segments:
\* 'doc', the first 8 hex characters of the SHA-256 digest of the content,
\* and 8 hex characters.
C7_DocumentIdIsDocSha256Random ==
    \A k \in 1..Len(ingests) :
        LET parts == Split(ingests[k].document_id, "_")
        IN /\ Len(parts) = 3
           /\ parts[1] = <<"d", "o", "c">>
           /\ parts[2] = PySlice(Sha256Hex(ingests[k].content), 0, 8)
           /\ Len(parts[3]) = 8
           /\ IsHex(parts[3])

IngestFinishes == \E e \in BOOLEAN, r \in BOOLEAN : IngestFinish(e, r)

\* C8 as stated: an ingest call only adds points: every point that was in the
\* index before the call's upsert is there after it with the same vector and
\* payload.
C8_IngestKeepsStoredPoints ==
    [][IngestFinishes =>
        \A id \in DOMAIN index.points :
            /\ id \in DOMAIN index'.points
            /\ index'.points[id] = index.points[id]]_vars

CreateWithoutRecreate ==
    \E p \in Procs, seed \in HashSeeds, r \in BOOLEAN : Startup(p, seed, r)

PointDestroyed ==
    \/ index.exists /\ ~index'.exists
    \/ \E id \in DOMAIN index.points : id \notin DOMAIN index'.points

\* C9: a create_collection call without recreate=True raises nothing and, on
\* an existing collection, leaves the points, the dimension and the distance
\* as they were, at every startup of every service and however startups and
\* ingest calls interleave; a collection or a point id disappears from the
\* index only in the delete of a recreate=True call.
C9_CreateWithoutRecreateKeepsAll ==
    [][/\ CreateWithoutRecreate =>
            /\ ~lastCreate'.raised
            /\ index.exists => index' = index
       /\ PointDestroyed =>
            \E d \in OptDims, r \in BOOLEAN : AdminRecreateDelete(d, r)]_vars

C9_Witness ==
    /\ lastCreate = [recreate |-> FALSE, found |-> "points", raised |-> FALSE]
    /\ DOMAIN index.points # {}
    /\ up["ingestion"]
    /\ up["api"]

CreateReturns ==
    \/ CreateWithoutRecreate
    \/ \E r \in BOOLEAN : AdminRecreateCreate(r)
    \/ \E b \in Bodies, e \in BOOLEAN, r \in BOOLEAN : QueryKnowledgeBase(b, e, r)

\* C10 as stated: create_collection never returns normally while the
\* collection does not exist: a failure of the create call other than
\* 'already exists' is raised to the caller.
C10_CreateFailureSurfaces ==
    [][CreateReturns => (lastCreate'.raised \/ index'.exists)]_vars

-----------------------------------------------------------------------------
(* Properties of generate_context, checked under SpecContext *)

StartsWith(s, p) == Len(s) >= Len(p) /\ SubSeq(s, 1, Len(p)) = p
Drop(s, n) == SubSeq(s, n + 1, Len(s))

\* the place of the first c in s, 0 when there is none
FirstIndexOf(s, c) ==
    IF \E i \in 1..Len(s) : s[i] = c
    THEN CHOOSE i \in 1..Len(s) : s[i] = c /\ \A j \in 1..(i - 1) : s[j] # c
    ELSE 0

Digits == { HexDigits[i] : i \in 1..10 }

RECURSIVE ParseNat(_)
\* the number a string of digits writes
ParseNat(s) ==
    IF s = <<>> THEN 0
    ELSE ParseNat(SubSeq(s, 1, Len(s) - 1)) * 10 + (CharCode(s[Len(s)]) - 1)

\* num writes the score k/16 with three decimals: a sign when k is negative,
\* digits, a point, three digits, and a value within half a thousandth
ShowsScore(num, k) ==
    LET neg == num # <<>> /\ num[1] = "-"
        mag == IF neg THEN Tail(num) ELSE num
        n == Len(mag)
    IN /\ n >= 5
       /\ mag[n - 3] = "."
       /\ \A i \in (1..n) \ {n - 3} : mag[i] \in Digits
       /\ LET t == ParseNat(SubSeq(mag, 1, n - 4)) * 1000
                       + ParseNat(SubSeq(mag, n - 2, n))
          IN Abs(10 * t - 625 * Abs(k)) <= 5
       /\ neg <=> k < 0

ResultText(doc) == DictGet(DictGet(doc, "payload", EmptyDict), "text", <<>>)
ResultScore(doc) == DictGet(doc, "score", 0)

RECURSIVE BlocksFrom(_, _, _)
\* out is the blocks of docs (not empty), ranked from i on: each block is
\* "[rank] (Score: s)", a line break and the text; one blank line and nothing
\* else stands between two blocks, and nothing follows the last
BlocksFrom(out, i, docs) ==
    LET head == <<"[">> \o Str(i) \o <<"]", " ", "(", "S", "c", "o", "r", "e", ":", " ">>
        rest1 == Drop(out, Len(head))
        close == FirstIndexOf(rest1, ")")
        body == <<"\n">> \o ResultText(docs[1])
        rest2 == Drop(rest1, close)
        rest3 == Drop(rest2, Len(body))
    IN /\ StartsWith(out, head)
       /\ close > 0
       /\ ShowsScore(SubSeq(rest1, 1, close - 1), ResultScore(docs[1]))
       /\ StartsWith(rest2, body)
       /\ IF Len(docs) = 1 THEN rest3 = <<>>
          ELSE /\ StartsWith(rest3, <<"\n", "\n">>)
               /\ BlocksFrom(Drop(rest3, 2), i + 1, Tail(docs))

\* C12: generate_context on n results returns n blocks in the order of the
\* results, the i-th with rank i, the i-th score and the i-th text, one blank
\* line between two blocks, nothing before the first and nothing after the
\* last; on no results it returns the empty string.
C12_ContextIsBlocksInOrder ==
    gcpc = "return" =>
        IF documents = <<>> THEN context = <<>>
        ELSE BlocksFrom(context, 1, documents)

C12_Witness ==
    /\ gcpc = "return"
    /\ Len(documents) >= 2
    /\ ResultText(documents[1]) # <<>>
    /\ context # <<>>

-----------------------------------------------------------------------------
(* Properties of the api service, checked under Spec *)

\* C11: a query call that succeeds and whose index search returned no hits
\* answers num_results = 0, an empty result list and the empty string as
\* context, whatever the query text and the limit.
C11_NoHitsGivesEmptyAnswer ==
    (response.status = "ok" /\ response.hits = 0) =>
        /\ response.num_results = 0
        /\ response.results = <<>>
        /\ response.context = <<>>

C11_Witness ==
    /\ response.status = "ok"
    /\ response.hits = 0
    /\ index.exists
    /\ response.request.limit = Some(1)

\* C13: the limit that goes to the index search is a positive integer, the
\* caller's whenever the caller sent one and 5 when the caller left it out,
\* and the answer holds no more results than that limit.
C13_SearchLimitIsCallersOrDefault ==
    response.searched =>
        /\ response.limit >= 1
        /\ (response.supplied /\ response.request.limit # None) =>
               response.limit = response.request.limit[1]
        /\ ~response.supplied => response.limit = 5
        /\ response.num_results <= response.limit

-----------------------------------------------------------------------------
(* Properties of ingest calls and of the points they store, checked under Spec *)

\* nothing but ingest calls so far: no query, no process stop, no recreate
OnlyIngestCalls == events = Len(ingests) /\ adminpc = "idle"

\* the points whose payload names document d
PointsOf(d) ==
    { p \in DOMAIN index.points : index.points[p].payload.document_id = d }

\* the i-th chunk (from 0) of an ingested content: the service's chunk_size
\* characters from i times the service's step on
IngestedChunk(content, i) ==
    PySlice(content, i * (config.chunk_size - config.chunk_overlap),
            i * (config.chunk_size - config.chunk_overlap) + config.chunk_size)

\* C14: after ingest calls only, for every ingest call that succeeded with
\* (document_id d, chunks_created n) the index holds exactly n points whose
\* payload names d, their chunk_index values are exactly 0..n-1, and the
\* point with chunk_index i carries the text of the i-th chunk.
C14_SuccessfulIngestIsStoredWhole ==
    OnlyIngestCalls =>
        \A k \in 1..Len(ingests) :
            ingests[k].status = "success" =>
                LET d == ingests[k].document_id
                    n == ingests[k].chunks_created
                IN /\ Cardinality(PointsOf(d)) = n
                   /\ \A i \in 0..(n - 1) :
                          \E p \in PointsOf(d) :
                              /\ index.points[p].payload.chunk_index = i
                              /\ index.points[p].payload.text
                                     = IngestedChunk(ingests[k].content, i)

\* the payload is the three keys ingest_document writes and nothing else
PlainPayload(payload) == DOMAIN payload = {"document_id", "chunk_index", "text"}

\* C15: the point id of a chunk depends on its chunk_id string only, the
\* same in every upsert call and in every service process, before and after
\* a restart: every point an ingest call stored sits at the point id that
\* the ingestion process now running derives from the point's chunk_id, so
\* that upserting the chunk again would replace that point.
C15_PointIdDependsOnChunkIdOnly ==
    up["ingestion"] =>
        \A p \in DOMAIN index.points :
            PlainPayload(index.points[p].payload) =>
                p = PointId(hashseed,
                            ChunkId(index.points[p].payload.document_id,
                                    index.points[p].payload.chunk_index))

\* an ingest call comes to the embedding call and the embedding raises
IngestEmbeddingFails == \E r \in BOOLEAN : IngestFinish(FALSE, r)

\* C16: an ingest call whose embedding fails ends as a reported failure,
\* issues no upsert and leaves the index exactly as it was; and every ingest
\* and every query call invokes the embedding, the index upsert and the
\* index search at most once each: a failed stage is not tried again.
\* (stages is written by ingest and query calls only, each call setting it
\* to its own counts.)
C16_EmbeddingFailureAndNoRetry ==
    [][/\ IngestEmbeddingFails =>
              /\ ingests'[Len(ingests')].status = "error"
              /\ stages'.upsert = 0
              /\ index' = index
       /\ stages'.encode <= 1
       /\ stages'.upsert <= 1
       /\ stages'.search <= 1]_vars

C16_Witness ==
    /\ Len(ingests) = 2
    /\ ingests[1].status = "success"
    /\ ingests[2].status = "error"
    /\ stages = [encode |-> 1, upsert |-> 0, search |-> 0]
    /\ response.status = "none"
    /\ DOMAIN index.points # {}

====
